---- MODULE Spec2Model ----
(***************************************************************************)
(* Model of gemini_analysis.py: a straight-line script that loads a        *)
(* dotenv file, builds a google-genai client from GOOGLE_API_KEY, sends    *)
(* one fixed prompt to "gemini-2.5-pro" and prints a header line and the   *)
(* response text.                                                          *)
(*                                                                         *)
(* One behaviour of the model is a series of process runs.  Every run      *)
(* starts from a parent environment, a state of the dotenv file and a      *)
(* provider that are chosen freely; nothing the script does survives the   *)
(* end of its process.  One earlier run is remembered so that two runs can *)
(* be compared.                                                            *)
(*                                                                         *)
(* Python values are records [t, v]: t is the type name, v the string      *)
(* value ("" for None).  Standard output is the sequence of lines written  *)
(* by print, each line being str(argument) followed by the newline that    *)
(* print appends.                                                          *)
(***************************************************************************)
EXTENDS Naturals, Sequences, FiniteSets

\* ------------------------------------------------------------------ bounds
MaxRuns == 2

\* --------------------------------------------------------- python values
PyNone == [t |-> "NoneType", v |-> ""]

PyStr(s) == [t |-> "str", v |-> s]

IsNone(x) == x.t = "NoneType"

\* truth value of an Optional[str]: None and "" are falsy
Truthy(x) == x.t = "str" /\ x.v # ""

\* str(x), the conversion print applies to its argument
Str(x) == IF x.t = "NoneType" THEN "None" ELSE x.v

\* ------------------------------------------------------------- literals
ENV_VAR == "GOOGLE_API_KEY"

MODEL == "gemini-2.5-pro"

\* the prompt literal of lines 8-38, named by its first line
prompt == "You are an art critic, technology analyst, and Web3 strategist. Analyze this NFT project with brutal honesty."

HEADER == "=== GEMINI 2.5 PRO ANALYSIS ==="

\* ------------------------------------------------- the script's surroundings
Keys == {"key123", "badkey"}

\* the keys the provider accepts
ValidKeys == {"key123"}

\* values GOOGLE_API_KEY can have in the parent environment (PyNone: unset)
EnvValues == {PyNone, PyStr("")} \cup {PyStr(k) : k \in Keys}

Environs == [{ENV_VAR} -> EnvValues]

\* the dotenv file: absent, or present with or without a GOOGLE_API_KEY
\* line (PyNone: no such line; "": a line with an empty value)
DotenvFiles ==
    {[exists |-> FALSE, vars |-> [n \in {ENV_VAR} |-> PyNone]]}
    \cup {[exists |-> TRUE, vars |-> [n \in {ENV_VAR} |-> x]] : x \in EnvValues}

Texts == {"Strengths: ... Verdict: 8/10", "Verdict: 2/10"}

\* what response.text can be: None (no text part), "" or a text
ResponseTexts == {PyNone, PyStr("")} \cup {PyStr(s) : s \in Texts}

NoResponse == [returned |-> FALSE, text |-> PyNone]

Terminal == {"success", "failure"}

VARIABLES
    pc,          \* position of the script
    runNo,       \* number of the current process run
    envAtStart,  \* os.environ as inherited from the parent
    environ,     \* os.environ of the process
    dotenvFile,  \* the file at /home/trader/Tasfag/.env during the run
    ambient,     \* the client library finds a credential of its own
    apiKeyArg,   \* the api_key argument given to genai.Client
    hasClient,   \* client is bound
    captured,    \* the generate_content calls seen by the provider
    response,    \* response of the provider
    stdout,      \* lines written to standard output
    fault,       \* where the uncaught exception was raised
    steps,       \* the steps executed in this run, in order
    remembered   \* at most one record of an earlier run

vars == <<pc, runNo, envAtStart, environ, dotenvFile, ambient, apiKeyArg,
          hasClient, captured, response, stdout, fault, steps, remembered>>

\* ------------------------------------------------------------ operations

\* load_dotenv with override=True: the file wins over the environment
load_dotenvOverride(file, env) ==
    [n \in DOMAIN env |->
        IF file.exists /\ ~IsNone(file.vars[n])
        THEN file.vars[n]
        ELSE env[n]]

\* load_dotenv(path), override=False: a missing file loads nothing and does
\* not raise; a variable already in os.environ (even empty) is kept
load_dotenv(file, env) ==
    [n \in DOMAIN env |->
        IF file.exists /\ ~IsNone(file.vars[n]) /\ IsNone(env[n])
        THEN file.vars[n]
        ELSE env[n]]

\* os.getenv(name, "key123"): a built-in default key
getenvDefault(env, name) ==
    IF IsNone(env[name]) THEN PyStr("key123") ELSE env[name]

\* os.getenv(name): the value, or None when unset
getenv(env, name) == env[name]

\* a client that checks nothing at construction
ClientConstructsUnchecked(k, amb) == TRUE

\* genai.Client(api_key=k) raises ValueError when it has no api key: neither
\* a non-empty argument nor a credential the library finds by itself
ClientConstructs(k, amb) == Truthy(k) \/ amb

\* the provider answers a request only if the credential is acceptable; a
\* credential the library found by itself may or may not be
CredentialAcceptable ==
    IF Truthy(apiKeyArg) THEN apiKeyArg.v \in ValidKeys ELSE ambient

FreshRun(e, f, a) ==
    /\ pc' = "load_env"
    /\ envAtStart' = e
    /\ environ' = e
    /\ dotenvFile' = f
    /\ ambient' = a
    /\ apiKeyArg' = PyNone
    /\ hasClient' = FALSE
    /\ captured' = <<>>
    /\ response' = NoResponse
    /\ stdout' = <<>>
    /\ fault' = "none"
    /\ steps' = <<>>

RunRecord ==
    [env |-> envAtStart, file |-> dotenvFile, ambient |-> ambient,
     captured |-> captured, response |-> response, fault |-> fault,
     pc |-> pc, stdout |-> stdout]

Init ==
    /\ runNo = 1
    /\ remembered = {}
    /\ pc = "load_env"
    /\ envAtStart \in Environs
    /\ environ = envAtStart
    /\ dotenvFile \in DotenvFiles
    /\ ambient \in BOOLEAN
    /\ apiKeyArg = PyNone
    /\ hasClient = FALSE
    /\ captured = <<>>
    /\ response = NoResponse
    /\ stdout = <<>>
    /\ fault = "none"
    /\ steps = <<>>

\* line 5
LoadEnv ==
    /\ pc = "load_env"
    /\ environ' = load_dotenv(dotenvFile, environ)
    /\ steps' = Append(steps, "load_env")
    /\ pc' = "make_client"
    /\ UNCHANGED <<runNo, envAtStart, dotenvFile, ambient, apiKeyArg,
                   hasClient, captured, response, stdout, fault, remembered>>

\* line 6
MakeClient ==
    /\ pc = "make_client"
    /\ apiKeyArg' = getenv(environ, ENV_VAR)
    /\ steps' = Append(steps, "make_client")
    /\ IF ClientConstructs(getenv(environ, ENV_VAR), ambient)
       THEN /\ hasClient' = TRUE
            /\ pc' = "request"
            /\ fault' = fault
       ELSE /\ hasClient' = FALSE
            /\ pc' = "failure"
            /\ fault' = "make_client"
    /\ UNCHANGED <<runNo, envAtStart, environ, dotenvFile, ambient,
                   captured, response, stdout, remembered>>

\* the model name taken from the configuration when a key was loaded
IssueRequestConfigured ==
    /\ pc = "request"
    /\ hasClient
    /\ captured' = Append(captured,
           [model |-> IF Truthy(environ[ENV_VAR]) THEN MODEL
                      ELSE "gemini-2.5-flash",
            contents |-> prompt])
    /\ steps' = Append(steps, "request")
    /\ pc' = "waiting"
    /\ UNCHANGED <<runNo, envAtStart, environ, dotenvFile, ambient,
                   apiKeyArg, hasClient, response, stdout, fault, remembered>>

\* lines 40-43: the call is issued and the script blocks
IssueRequest ==
    /\ pc = "request"
    /\ hasClient
    /\ captured' = Append(captured, [model |-> MODEL, contents |-> prompt])
    /\ steps' = Append(steps, "request")
    /\ pc' = "waiting"
    /\ UNCHANGED <<runNo, envAtStart, environ, dotenvFile, ambient,
                   apiKeyArg, hasClient, response, stdout, fault, remembered>>

\* line 40: generate_content returns and response is bound
ProviderReturns ==
    /\ pc = "waiting"
    /\ CredentialAcceptable
    /\ \E t \in ResponseTexts : response' = [returned |-> TRUE, text |-> t]
    /\ pc' = "print_header"
    /\ UNCHANGED <<runNo, envAtStart, environ, dotenvFile, ambient,
                   apiKeyArg, hasClient, captured, stdout, fault, steps,
                   remembered>>

\* a failed call is tried again
ProviderFailsRetry ==
    /\ pc = "waiting"
    /\ fault' = "request"
    /\ pc' = "request"
    /\ UNCHANGED <<runNo, envAtStart, environ, dotenvFile, ambient,
                   apiKeyArg, hasClient, captured, response, stdout, steps,
                   remembered>>

\* a failed call is reported on standard output
ProviderFailsReported ==
    /\ pc = "waiting"
    /\ fault' = "request"
    /\ stdout' = Append(stdout, HEADER)
    /\ pc' = "failure"
    /\ UNCHANGED <<runNo, envAtStart, environ, dotenvFile, ambient,
                   apiKeyArg, hasClient, captured, response, steps,
                   remembered>>

\* line 40: generate_content raises; nothing catches it
ProviderFails ==
    /\ pc = "waiting"
    /\ fault' = "request"
    /\ pc' = "failure"
    /\ UNCHANGED <<runNo, envAtStart, environ, dotenvFile, ambient,
                   apiKeyArg, hasClient, captured, response, stdout, steps,
                   remembered>>

\* print(header + "\n"): a blank line after the header
PrintHeaderBlankLine ==
    /\ pc = "print_header"
    /\ stdout' = Append(Append(stdout, HEADER), "")
    /\ steps' = Append(steps, "print")
    /\ pc' = "print_body"
    /\ UNCHANGED <<runNo, envAtStart, environ, dotenvFile, ambient,
                   apiKeyArg, hasClient, captured, response, fault,
                   remembered>>

\* a header that tells a first run from a later one
PrintHeaderRerun ==
    /\ pc = "print_header"
    /\ stdout' = Append(stdout, IF runNo = 1 THEN HEADER
                                ELSE "=== GEMINI 2.5 PRO ANALYSIS (RERUN) ===")
    /\ steps' = Append(steps, "print")
    /\ pc' = "print_body"
    /\ UNCHANGED <<runNo, envAtStart, environ, dotenvFile, ambient,
                   apiKeyArg, hasClient, captured, response, fault,
                   remembered>>

\* line 45
PrintHeader ==
    /\ pc = "print_header"
    /\ stdout' = Append(stdout, HEADER)
    /\ steps' = Append(steps, "print")
    /\ pc' = "print_body"
    /\ UNCHANGED <<runNo, envAtStart, environ, dotenvFile, ambient,
                   apiKeyArg, hasClient, captured, response, fault,
                   remembered>>

\* a response without text is refused
PrintBodyChecked ==
    /\ pc = "print_body"
    /\ IF Truthy(response.text)
       THEN /\ stdout' = Append(stdout, Str(response.text))
            /\ pc' = "success"
            /\ fault' = fault
       ELSE /\ stdout' = stdout
            /\ pc' = "failure"
            /\ fault' = "print"
    /\ UNCHANGED <<runNo, envAtStart, environ, dotenvFile, ambient,
                   apiKeyArg, hasClient, captured, response, steps,
                   remembered>>

\* the print step is entered again after the body
PrintBodyAgain ==
    /\ pc = "print_body"
    /\ stdout' = Append(stdout, Str(response.text))
    /\ pc' = "print_header"
    /\ UNCHANGED <<runNo, envAtStart, environ, dotenvFile, ambient,
                   apiKeyArg, hasClient, captured, response, fault, steps,
                   remembered>>

\* line 46; the script ends
PrintBody ==
    /\ pc = "print_body"
    /\ stdout' = Append(stdout, Str(response.text))
    /\ pc' = "success"
    /\ UNCHANGED <<runNo, envAtStart, environ, dotenvFile, ambient,
                   apiKeyArg, hasClient, captured, response, fault, steps,
                   remembered>>

\* the script is run again, in a new process
StartRun ==
    /\ pc \in Terminal
    /\ runNo < MaxRuns
    /\ runNo' = runNo + 1
    /\ remembered' \in {remembered, {RunRecord}}
    /\ \E e \in Environs, f \in DotenvFiles, a \in BOOLEAN : FreshRun(e, f, a)

Next ==
    \/ LoadEnv
    \/ MakeClient
    \/ IssueRequest
    \/ ProviderReturns
    \/ ProviderFails
    \/ PrintHeader
    \/ PrintBody
    \/ StartRun

Spec == Init /\ [][Next]_vars

\* every step of the script is taken in time, and the provider call
\* eventually returns or fails
FairSpec ==
    /\ Spec
    /\ WF_vars(LoadEnv)
    /\ WF_vars(MakeClient)
    /\ WF_vars(IssueRequest)
    /\ WF_vars(ProviderReturns \/ ProviderFails)
    /\ WF_vars(PrintHeader)
    /\ WF_vars(PrintBody)

\* ---------------------------------------------------------------- claims

ValidCredential == Truthy(apiKeyArg) /\ apiKeyArg.v \in ValidKeys

ReturnedText == response.returned /\ response.text.t = "str"

ReturnedNoText == response.returned /\ ~Truthy(response.text)

FileAbsent == ~dotenvFile.exists

KeyMissing == ~dotenvFile.exists \/ IsNone(dotenvFile.vars[ENV_VAR])

\* no usable credential reaches the client from anywhere but the file
NoOtherCredential == ~Truthy(envAtStart[ENV_VAR]) /\ ~ambient

StepOrder == <<"load_env", "make_client", "request", "print">>

IsPrefix(s, t) == Len(s) <= Len(t) /\ \A i \in 1..Len(s) : s[i] = t[i]

\* C1: generate_content is invoked at most once in a run: exactly once in a
\* run that reaches success, and a call that failed is the run's only call,
\* the run being over (no retry).
C1_SingleCall ==
    /\ Len(captured) <= 1
    /\ (pc = "success" => Len(captured) = 1)
    /\ (fault = "request" => pc = "failure" /\ Len(captured) = 1)

C1_Witness ==
    /\ pc = "failure"
    /\ fault = "request"
    /\ Len(captured) = 1
    /\ apiKeyArg = PyStr("badkey")

\* C2 as stated: with a valid credential and a call that returned the text
\* T, standard output at success is the header line then T, and T is not
\* empty.
C2_Original ==
    (ValidCredential /\ ReturnedText /\ pc = "success")
        => (stdout = <<HEADER, response.text.v>> /\ response.text.v # "")

\* C2 amended: with a valid credential and a call that returned the text T
\* (which may be empty), nothing is written before the header, the header
\* is the first write, T unchanged the second, and nothing follows.
C2_HeaderThenText ==
    (ValidCredential /\ ReturnedText)
        => /\ (pc = "print_header" => stdout = <<>>)
           /\ (pc = "print_body" => stdout = <<HEADER>>)
           /\ (pc = "success" => stdout = <<HEADER, response.text.v>>)
           /\ pc \in {"print_header", "print_body", "success"}

C2_Witness ==
    /\ pc = "success"
    /\ ValidCredential
    /\ response.text = PyStr("Strengths: ... Verdict: 8/10")
    /\ stdout = <<HEADER, "Strengths: ... Verdict: 8/10">>

\* C3: when the provider call fails the run is in the failure state, no
\* response was bound and standard output is empty: neither the header nor
\* a body was printed.
C3_FailedCallPrintsNothing ==
    fault = "request"
        => (pc = "failure" /\ stdout = <<>> /\ ~response.returned)

C3_Witness ==
    /\ fault = "request"
    /\ pc = "failure"
    /\ ValidCredential
    /\ stdout = <<>>

\* C4 as stated: with the dotenv file absent, whatever the parent
\* environment, the run never succeeds and writes nothing.  (Refuted
\* already where the client library has no credential of its own.)
C4_Original ==
    (FileAbsent /\ ~ambient) => (pc # "success" /\ stdout = <<>>)

\* C4 amended: with the dotenv file absent and no usable credential from
\* elsewhere (GOOGLE_API_KEY unset or empty in the parent environment, none
\* found by the client library), the run never gets past client
\* construction, ends only in failure there, and writes nothing.
C4_AbsentFileNoCredential ==
    (FileAbsent /\ NoOtherCredential)
        => /\ stdout = <<>>
           /\ pc \in {"load_env", "make_client", "failure"}
           /\ (pc = "failure" => fault = "make_client")

C4_Witness ==
    /\ FileAbsent
    /\ NoOtherCredential
    /\ pc = "failure"
    /\ stdout = <<>>

\* C5 as stated: with the dotenv file missing or without GOOGLE_API_KEY,
\* no request is ever issued and a finished run failed at client
\* construction.  (Refuted already where the client library has no
\* credential of its own.)
C5_Original ==
    (KeyMissing /\ ~ambient)
        => /\ captured = <<>>
           /\ (pc \in Terminal => pc = "failure" /\ fault = "make_client")

\* C5 amended: with the dotenv file missing or without GOOGLE_API_KEY, and
\* no usable credential from elsewhere, no request is ever issued and a
\* finished run failed at client construction.
C5_NoKeyFailsAtClient ==
    (KeyMissing /\ NoOtherCredential)
        => /\ captured = <<>>
           /\ ~hasClient
           /\ (pc \in Terminal => pc = "failure" /\ fault = "make_client")

C5_Witness ==
    /\ dotenvFile.exists
    /\ IsNone(dotenvFile.vars[ENV_VAR])
    /\ NoOtherCredential
    /\ pc = "failure"
    /\ fault = "make_client"
    /\ captured = <<>>

\* C6: every call the provider sees, in this run and in the remembered run,
\* carries model "gemini-2.5-pro" and the prompt literal, whatever the
\* environment, the dotenv file and the credential are.
C6_FixedArguments ==
    /\ \A i \in 1..Len(captured) :
          captured[i] = [model |-> "gemini-2.5-pro", contents |-> prompt]
    /\ \A r \in remembered : \A i \in 1..Len(r.captured) :
          r.captured[i] = [model |-> "gemini-2.5-pro", contents |-> prompt]

C6_Witness ==
    /\ Len(captured) = 1
    /\ \E r \in remembered :
          /\ Len(r.captured) = 1
          /\ r.env # envAtStart
          /\ r.file # dotenvFile

\* C7: a finished run that had the same parent environment, dotenv file and
\* library credential as the remembered run, and got the same text from the
\* provider, has the same standard output.
C7_Deterministic ==
    \A r \in remembered :
        (/\ pc \in Terminal
         /\ r.env = envAtStart
         /\ r.file = dotenvFile
         /\ r.ambient = ambient
         /\ r.response.returned
         /\ r.response = response)
            => r.stdout = stdout

C7_Witness ==
    /\ pc = "success"
    /\ runNo = 2
    /\ \E r \in remembered :
          /\ r.env = envAtStart
          /\ r.file = dotenvFile
          /\ r.ambient = ambient
          /\ r.response = response
          /\ r.stdout = stdout
          /\ Len(stdout) = 2

\* C8 as stated: a call that returned without text ends in success with
\* the header followed by an empty body.
C8_Original ==
    (ReturnedNoText /\ pc \in Terminal)
        => (pc = "success" /\ stdout = <<HEADER, "">>)

\* C8 amended: a call that returned without text is no failure; the run
\* ends in success with the header followed by one body line, which is
\* empty when the text is the empty string and reads None when the
\* response has no text at all.
C8_NoTextIsSuccess ==
    ReturnedNoText
        => /\ pc # "failure"
           /\ fault = "none"
           /\ (pc = "success"
                 => stdout = <<HEADER,
                               IF IsNone(response.text) THEN "None" ELSE "">>)

C8_Witness ==
    /\ pc = "success"
    /\ response.returned
    /\ IsNone(response.text)
    /\ stdout = <<HEADER, "None">>

\* C9: under FairSpec every run reaches success or failure; the steps load
\* env file, construct client, issue request, print are taken at most once
\* each and in that order; success means all four were taken and both
\* prints executed, failure means an uncaught fault; and the process takes
\* no step after its terminal state (the next step starts a new run).
C9_StraightLine ==
    /\ [](IsPrefix(steps, StepOrder))
    /\ [](pc = "success" => (steps = StepOrder /\ Len(stdout) = 2
                             /\ fault = "none"))
    /\ [](pc = "failure" => (fault # "none" /\ Len(steps) \in {2, 3}))
    /\ [][(pc \in Terminal) => (runNo' = runNo + 1)]_vars
    /\ (pc = "load_env" ~> pc \in Terminal)
    /\ (pc = "waiting" ~> pc \in Terminal)

C9_Witness ==
    /\ pc = "success"
    /\ steps = StepOrder
    /\ runNo = MaxRuns

\* C10: once the file is loaded, GOOGLE_API_KEY in os.environ is the parent
\* environment's value when that was set (even empty) and the file's value
\* otherwise (unset when the file is absent or has no such line); and the
\* api_key given to the client is that value.
C10_EnvironmentPrecedence ==
    /\ pc # "load_env"
          => environ[ENV_VAR] =
                IF ~IsNone(envAtStart[ENV_VAR]) THEN envAtStart[ENV_VAR]
                ELSE IF dotenvFile.exists THEN dotenvFile.vars[ENV_VAR]
                ELSE PyNone
    /\ pc \notin {"load_env", "make_client"}
          => apiKeyArg = environ[ENV_VAR]

C10_Witness ==
    /\ pc = "waiting"
    /\ envAtStart[ENV_VAR] = PyStr("badkey")
    /\ dotenvFile.exists
    /\ dotenvFile.vars[ENV_VAR] = PyStr("key123")
    /\ apiKeyArg = PyStr("badkey")
====
